---- MODULE Spec2Model ----
(***************************************************************************)
(* 1MinuteShop API (src/main.py): tenants, products and orders kept in a   *)
(* document store, with the tenant resolution and tenant-scope checks of   *)
(* every handler.                                                          *)
(*                                                                         *)
(* A collection is the sequence of its documents in insertion order        *)
(* (find_one returns the first match).  An ObjectId is the record          *)
(* [oid |-> h] of its 24-digit hex form h; a datetime is a number of clock *)
(* ticks.  `if db` is taken to be true: the store is connected.            *)
(***************************************************************************)
EXTENDS Naturals, Sequences, FiniteSets, TLC

VARIABLES
    tenant,        \* db["tenant"]: the tenant documents, in insertion order
    product,       \* db["product"]
    order,         \* db["order"]
    inserted,      \* per collection, the number of documents ever inserted
    clock,         \* the latest reading of datetime.now(timezone.utc)
    createdUnder,  \* product id string -> _id of the tenant create_product resolved
    resp,          \* the response of the request that ended last
    th             \* per worker thread, the request it is in the middle of

vars == <<tenant, product, order, inserted, clock, createdUnder, resp, th>>

(* ------------------------------ bounds --------------------------------- *)

MaxTenants == 2
MaxProducts == 1
MaxOrders == 2
MaxClock == 1
MaxThreads == 2

(* ------------------------------ values --------------------------------- *)

\* Python None as the value of an Optional[str] field
None == "None"

\* Python None where a document is expected (find_one that misses)
NoDoc == [none |-> TRUE]

\* The ObjectIds the store hands out, per collection, in order of insertion.
TenantOidHex ==
    << "650000000000000000000001", "650000000000000000000002",
       "650000000000000000000003", "650000000000000000000004" >>

ProductOidHex ==
    << "6500000000000000000000a1", "6500000000000000000000a2",
       "6500000000000000000000a3", "6500000000000000000000a4" >>

OrderOidHex ==
    << "6500000000000000000000b1", "6500000000000000000000b2",
       "6500000000000000000000b3", "6500000000000000000000b4" >>

OidHex == [tenant |-> TenantOidHex, product |-> ProductOidHex, order |-> OrderOidHex]

Range(s) == {s[i] : i \in DOMAIN s}

\* bson.ObjectId.is_valid on a str: 24 hex digits
IsValidOid(s) == s \in Range(TenantOidHex) \cup Range(ProductOidHex) \cup Range(OrderOidHex)

\* bson.ObjectId(s) and str(oid)
ObjectId(s) == [oid |-> s]

Str(o) == o.oid

\* datetime.isoformat() of an UTC datetime
IsoTable ==
    << "1970-01-01T00:00:00+00:00", "1970-01-01T00:00:01+00:00",
       "1970-01-01T00:00:02+00:00", "1970-01-01T00:00:03+00:00",
       "1970-01-01T00:00:04+00:00" >>

IsoFormat(t) == IsoTable[t + 1]

DatetimeKeys == {"created_at", "updated_at"}

\* to_str_id
to_str_id(doc) ==
    IF doc = NoDoc THEN NoDoc
    ELSE [k \in (DOMAIN doc \ {"_id"}) \cup {"id"} |->
            IF k = "id" THEN Str(doc["_id"])
            ELSE IF k \in DatetimeKeys THEN IsoFormat(doc[k])
            ELSE doc[k]]

(* --------------------------- store adapter ----------------------------- *)

\* collection.find_one(filter): the first document among the matching
\* positions `hits`, None when there is none
First(coll, hits) ==
    IF hits = {} THEN NoDoc
    ELSE coll[CHOOSE i \in hits : \A j \in hits : i <= j]

\* find_one({"_id": o})
FindById(coll, o) == First(coll, {i \in DOMAIN coll : coll[i]["_id"] = o})

\* find_one({"subdomain": s})
FindBySubdomain(coll, s) == First(coll, {i \in DOMAIN coll : coll[i].subdomain = s})

\* the subsequence of coll at the positions `hits`, in natural order
RECURSIVE At(_, _)
At(coll, hits) ==
    IF coll = <<>> THEN <<>>
    ELSE At(SubSeq(coll, 1, Len(coll) - 1), hits)
            \o (IF Len(coll) \in hits THEN <<coll[Len(coll)]>> ELSE <<>>)

\* cursor.sort("created_at", -1)
RECURSIVE InsertDesc(_, _)
InsertDesc(d, s) ==
    IF s = <<>> THEN <<d>>
    ELSE IF Head(s).created_at < d.created_at THEN <<d>> \o s
    ELSE <<Head(s)>> \o InsertDesc(d, Tail(s))

RECURSIVE SortCreatedDesc(_)
SortCreatedDesc(s) ==
    IF s = <<>> THEN <<>>
    ELSE InsertDesc(s[Len(s)], SortCreatedDesc(SubSeq(s, 1, Len(s) - 1)))

\* $set
SetFields(doc, update) ==
    [k \in DOMAIN doc \cup DOMAIN update |->
        IF k \in DOMAIN update THEN update[k] ELSE doc[k]]

\* the filter dropped: every document gets the fields
UpdateEvery(coll, o, update) == [i \in DOMAIN coll |-> SetFields(coll[i], update)]

\* update_one({"_id": o}, {"$set": update}): the first match gets the fields
UpdateOne(coll, o, update) ==
    [i \in DOMAIN coll |->
        IF coll[i]["_id"] = o /\ \A j \in 1..(i - 1) : coll[j]["_id"] # o
        THEN SetFields(coll[i], update) ELSE coll[i]]

\* delete_one({"_id": o}): the first match is removed
DeleteOne(coll, o) ==
    LET hits == {i \in DOMAIN coll : coll[i]["_id"] = o}
    IN IF hits = {} THEN coll
       ELSE At(coll, DOMAIN coll \ {CHOOSE i \in hits : \A j \in hits : i <= j})

\* insert_one: the store assigns the next ObjectId of the collection
NewOid(name) == ObjectId(OidHex[name][inserted[name] + 1])

WithId(doc, o) == [k \in DOMAIN doc \cup {"_id"} |-> IF k = "_id" THEN o ELSE doc[k]]

(* --------------------------- request bodies ---------------------------- *)

\* Subdomains callers register: TenantIn.subdomain matches ^[a-z0-9-]+$, which
\* admits the 24 lowercase hex digits of an ObjectId.
Subdomains == {"acme", "shop", TenantOidHex[1]}

TenantIn ==
    [subdomain : Subdomains, name : {"Acme", "Other"}, description : {None},
     logo_url : {None}, payment_details : {<<>>}]

\* Tenant references callers pass: a subdomain or an id string
TenantRefs == Subdomains \cup {TenantOidHex[i] : i \in 1..MaxTenants}

ProductFields ==
    { [name |-> "Widget", description |-> None, price |-> 9, inventory |-> 5,
       image_urls |-> <<>>, is_active |-> TRUE],
      [name |-> "Gadget", description |-> "new", price |-> 0, inventory |-> 0,
       image_urls |-> <<"u">>, is_active |-> FALSE] }

ProductIn ==
    {[k \in DOMAIN f \cup {"tenant_id"} |-> IF k = "tenant_id" THEN r ELSE f[k]] :
        f \in ProductFields, r \in TenantRefs}

ProductIds == {ProductOidHex[i] : i \in 1..MaxProducts} \cup {"not-an-id"}

OrderFields ==
    { [customer_name |-> "Bob", customer_email |-> "bob@x.io",
       shipping_address |-> <<>>, order_total |-> 10, status |-> "pending_payment",
       transaction_id |-> "tx1", payment_screenshot_url |-> None] }

\* Tenant references of the order requests
OrderTenantRefs == {"acme", TenantOidHex[1]}

OrderIn ==
    {[k \in DOMAIN f \cup {"tenant_id"} |-> IF k = "tenant_id" THEN r ELSE f[k]] :
        f \in OrderFields, r \in OrderTenantRefs}

OrderIds == {OrderOidHex[i] : i \in 1..MaxOrders} \cup {"not-an-id"}

\* the patches callers send: empty, status only, status and transaction_id
OrderUpdate ==
    { [status |-> None, transaction_id |-> None, payment_screenshot_url |-> None],
      [status |-> "shipped", transaction_id |-> None, payment_screenshot_url |-> None],
      [status |-> "shipped", transaction_id |-> "tx2", payment_screenshot_url |-> None] }

\* HTTPException(status_code, detail)
HTTPException(op, req, code, detail) ==
    [op |-> op, req |-> req, status |-> code, body |-> [detail |-> detail]]

Ok(op, req, body) == [op |-> op, req |-> req, status |-> 200, body |-> body]

\* datetime.now(timezone.utc): the clock has not gone back since the last read
Now(t) == t \in clock..MaxClock

(* ----------------------- tenant resolution, scope ---------------------- *)

\* the lookup every create and list handler starts with: by _id when the
\* reference is a valid ObjectId, then by subdomain
ResolveTenant(ref) ==
    LET byId == IF IsValidOid(ref) THEN FindById(tenant, ObjectId(ref)) ELSE NoDoc
    IN IF byId = NoDoc THEN FindBySubdomain(tenant, ref) ELSE byId

\* the scope check of update_product and delete_product
TenantMismatch(existing, ref) ==
    /\ existing.tenant_id # ref
    /\ LET t == FindBySubdomain(tenant, ref)
       IN t = NoDoc \/ Str(t["_id"]) # existing.tenant_id

(* ------------------------------ tenants -------------------------------- *)

NewTenant(in, o, t1, t2) ==
    WithId([k \in DOMAIN in \cup DatetimeKeys |->
               IF k = "created_at" THEN t1
               ELSE IF k = "updated_at" THEN t2 ELSE in[k]], o)

\* uniqueness checked on subdomain and name together
SubdomainTakenSameName(in) ==
    \E j \in DOMAIN tenant :
        tenant[j].subdomain = in.subdomain /\ tenant[j].name = in.name

\* create_tenant, line 83 to 84: `existing` is truthy
SubdomainTaken(in) == FindBySubdomain(tenant, in.subdomain) # NoDoc

\* POST /tenants
create_tenant(in) ==
    IF SubdomainTaken(in)
       THEN /\ resp' = HTTPException("create_tenant", in, 400, "Subdomain already exists")
            /\ UNCHANGED <<tenant, product, order, inserted, clock, createdUnder, th>>
       ELSE /\ inserted.tenant < MaxTenants
            /\ \E t1 \in 0..MaxClock, t2 \in 0..MaxClock :
                 /\ Now(t1) /\ t1 <= t2
                 /\ clock' = t2
                 /\ tenant' = Append(tenant, NewTenant(in, NewOid("tenant"), t1, t2))
                 /\ inserted' = [inserted EXCEPT !.tenant = @ + 1]
                 /\ resp' = Ok("create_tenant", in,
                              to_str_id(FindById(tenant', NewOid("tenant"))))
            /\ UNCHANGED <<product, order, createdUnder, th>>

\* GET /tenants/by-subdomain/{subdomain}
get_tenant_by_subdomain(subdomain) ==
    LET t == FindBySubdomain(tenant, subdomain)
    IN /\ resp' = IF t = NoDoc
                  THEN HTTPException("get_tenant_by_subdomain", subdomain, 404, "Tenant not found")
                  ELSE Ok("get_tenant_by_subdomain", subdomain, to_str_id(t))
       /\ UNCHANGED <<tenant, product, order, inserted, clock, createdUnder, th>>

(* ------------------------------ products ------------------------------- *)

\* database.create_document(collection_name, data): stamps created_at and
\* updated_at, inserts, returns the new id as a string
create_document(data, o, t1, t2) ==
    WithId([k \in DOMAIN data \cup DatetimeKeys |->
               IF k = "created_at" THEN t1
               ELSE IF k = "updated_at" THEN t2 ELSE data[k]], o)

\* POST /products
create_product(in) ==
    LET t == ResolveTenant(in.tenant_id)
    IN IF t = NoDoc
       THEN /\ resp' = HTTPException("create_product", in, 400, "Invalid tenant_id")
            /\ UNCHANGED <<tenant, product, order, inserted, clock, createdUnder, th>>
       ELSE /\ inserted.product < MaxProducts
            /\ \E t1 \in 0..MaxClock, t2 \in 0..MaxClock :
                 LET data == [in EXCEPT !.tenant_id = Str(t["_id"])]
                     o == NewOid("product")
                 IN /\ Now(t1) /\ t1 <= t2
                    /\ clock' = t2
                    /\ product' = Append(product, create_document(data, o, t1, t2))
                    /\ inserted' = [inserted EXCEPT !.product = @ + 1]
                    /\ createdUnder' = (Str(o) :> t["_id"]) @@ createdUnder
                    /\ resp' = Ok("create_product", in, to_str_id(FindById(product', o)))
            /\ UNCHANGED <<tenant, order, th>>

\* the body of GET /products
list_products_docs(tenant_id, only_active) ==
    LET t == ResolveTenant(tenant_id)
        hits == {i \in DOMAIN product :
                    /\ product[i].tenant_id = Str(t["_id"])
                    /\ only_active => product[i].is_active = TRUE}
    IN SortCreatedDesc(At(product, hits))

\* GET /products
list_products(tenant_id, only_active) ==
    LET req == [tenant_id |-> tenant_id, only_active |-> only_active]
    IN /\ resp' = IF ResolveTenant(tenant_id) = NoDoc
                  THEN HTTPException("list_products", req, 400, "Invalid tenant")
                  ELSE LET docs == list_products_docs(tenant_id, only_active)
                       IN Ok("list_products", req, [i \in DOMAIN docs |-> to_str_id(docs[i])])
       /\ UNCHANGED <<tenant, product, order, inserted, clock, createdUnder, th>>

\* the $set document of update_product: every field of ProductIn, tenant_id
\* included, and updated_at
ProductUpdate(in, t) == [k \in DOMAIN in \cup {"updated_at"} |->
                            IF k = "updated_at" THEN t ELSE in[k]]

\* PUT /products/{product_id}
update_product(product_id, in) ==
    LET req == [product_id |-> product_id, product |-> in]
        existing == FindById(product, ObjectId(product_id))
    IN IF ~IsValidOid(product_id)
       THEN /\ resp' = HTTPException("update_product", req, 400, "Invalid product id")
            /\ UNCHANGED <<tenant, product, order, inserted, clock, createdUnder, th>>
       ELSE IF existing = NoDoc
       THEN /\ resp' = HTTPException("update_product", req, 404, "Product not found")
            /\ UNCHANGED <<tenant, product, order, inserted, clock, createdUnder, th>>
       ELSE IF TenantMismatch(existing, in.tenant_id)
       THEN /\ resp' = HTTPException("update_product", req, 403, "Tenant mismatch")
            /\ UNCHANGED <<tenant, product, order, inserted, clock, createdUnder, th>>
       ELSE /\ \E t \in 0..MaxClock :
                 /\ Now(t)
                 /\ clock' = t
                 /\ product' = UpdateOne(product, ObjectId(product_id), ProductUpdate(in, t))
            /\ resp' = Ok("update_product", req,
                         to_str_id(FindById(product', ObjectId(product_id))))
            /\ UNCHANGED <<tenant, order, inserted, createdUnder, th>>

\* DELETE /products/{product_id}
delete_product(product_id, tenant_id) ==
    LET req == [product_id |-> product_id, tenant_id |-> tenant_id]
        existing == FindById(product, ObjectId(product_id))
    IN IF ~IsValidOid(product_id)
       THEN /\ resp' = HTTPException("delete_product", req, 400, "Invalid product id")
            /\ UNCHANGED <<tenant, product, order, inserted, clock, createdUnder, th>>
       ELSE IF existing = NoDoc
       THEN /\ resp' = HTTPException("delete_product", req, 404, "Product not found")
            /\ UNCHANGED <<tenant, product, order, inserted, clock, createdUnder, th>>
       ELSE IF TenantMismatch(existing, tenant_id)
       THEN /\ resp' = HTTPException("delete_product", req, 403, "Tenant mismatch")
            /\ UNCHANGED <<tenant, product, order, inserted, clock, createdUnder, th>>
       ELSE /\ product' = DeleteOne(product, ObjectId(product_id))
            /\ resp' = Ok("delete_product", req, [deleted |-> TRUE])
            /\ UNCHANGED <<tenant, order, inserted, clock, createdUnder, th>>

(* ------------------------------- orders -------------------------------- *)

NewOrder(data, o, t1, t2) ==
    WithId([k \in DOMAIN data \cup DatetimeKeys |->
               IF k = "created_at" THEN t1
               ELSE IF k = "updated_at" THEN t2 ELSE data[k]], o)

\* POST /orders
create_order(in) ==
    LET t == ResolveTenant(in.tenant_id)
    IN IF t = NoDoc
       THEN /\ resp' = HTTPException("create_order", in, 400, "Invalid tenant")
            /\ UNCHANGED <<tenant, product, order, inserted, clock, createdUnder, th>>
       ELSE /\ inserted.order < MaxOrders
            /\ \E t1 \in 0..MaxClock, t2 \in 0..MaxClock :
                 LET data == [in EXCEPT !.tenant_id = Str(t["_id"])]
                     o == NewOid("order")
                 IN /\ Now(t1) /\ t1 <= t2
                    /\ clock' = t2
                    /\ order' = Append(order, NewOrder(data, o, t1, t2))
                    /\ inserted' = [inserted EXCEPT !.order = @ + 1]
                    /\ resp' = Ok("create_order", in, to_str_id(FindById(order', o)))
            /\ UNCHANGED <<tenant, product, createdUnder, th>>

\* GET /orders
list_orders(tenant_id) ==
    LET t == ResolveTenant(tenant_id)
    IN /\ resp' = IF t = NoDoc
                  THEN HTTPException("list_orders", tenant_id, 400, "Invalid tenant")
                  ELSE LET docs == SortCreatedDesc(At(order,
                                      {i \in DOMAIN order : order[i].tenant_id = Str(t["_id"])}))
                       IN Ok("list_orders", tenant_id, [i \in DOMAIN docs |-> to_str_id(docs[i])])
       /\ UNCHANGED <<tenant, product, order, inserted, clock, createdUnder, th>>

\* the None fields kept
OrderPatchKeepNone(payload) == payload

\* {k: v for k, v in payload.model_dump().items() if v is not None}
OrderPatch(payload) == [k \in {f \in DOMAIN payload : payload[f] # None} |-> payload[k]]

\* update["updated_at"] = datetime.now(timezone.utc)
WithUpdatedAt(update, t) ==
    [k \in DOMAIN update \cup {"updated_at"} |-> IF k = "updated_at" THEN t ELSE update[k]]

\* PATCH /orders/{order_id}
update_order(order_id, payload) ==
    LET req == [order_id |-> order_id, payload |-> payload]
        existing == FindById(order, ObjectId(order_id))
        update == OrderPatch(payload)
    IN IF ~IsValidOid(order_id)
       THEN /\ resp' = HTTPException("update_order", req, 400, "Invalid order id")
            /\ UNCHANGED <<tenant, product, order, inserted, clock, createdUnder, th>>
       ELSE IF existing = NoDoc
       THEN /\ resp' = HTTPException("update_order", req, 404, "Order not found")
            /\ UNCHANGED <<tenant, product, order, inserted, clock, createdUnder, th>>
       ELSE IF DOMAIN update = {}
       THEN /\ resp' = Ok("update_order", req, to_str_id(existing))
            /\ UNCHANGED <<tenant, product, order, inserted, clock, createdUnder, th>>
       ELSE /\ \E t \in 0..MaxClock :
                 /\ Now(t)
                 /\ clock' = t
                 /\ order' = UpdateOne(order, ObjectId(order_id), WithUpdatedAt(update, t))
            /\ resp' = Ok("update_order", req,
                         to_str_id(FindById(order', ObjectId(order_id))))
            /\ UNCHANGED <<tenant, product, inserted, createdUnder, th>>

(* ------------------- handlers as their store calls -------------------- *)
(* Sync handlers run on the worker threads of the server, so the store     *)
(* calls of two requests interleave; each store call is atomic.            *)

Threads == 1..MaxThreads

Idle == [pc |-> "idle", req |-> <<>>, existing |-> NoDoc, o |-> NoDoc]

\* create_tenant, line 83 to 85: the uniqueness lookup
ct_lookup(i, in) ==
    /\ th[i].pc = "idle"
    /\ IF SubdomainTaken(in)
       THEN /\ resp' = HTTPException("create_tenant", in, 400, "Subdomain already exists")
            /\ UNCHANGED th
       ELSE /\ th' = [th EXCEPT ![i] = [Idle EXCEPT !.pc = "ct_insert", !.req = in]]
            /\ UNCHANGED resp
    /\ UNCHANGED <<tenant, product, order, inserted, clock, createdUnder>>

\* create_tenant, line 86 to 89: the insert
ct_insert(i) ==
    /\ th[i].pc = "ct_insert"
    /\ inserted.tenant < MaxTenants
    /\ \E t1 \in 0..MaxClock, t2 \in 0..MaxClock :
         /\ Now(t1) /\ t1 <= t2
         /\ clock' = t2
         /\ tenant' = Append(tenant, NewTenant(th[i].req, NewOid("tenant"), t1, t2))
    /\ inserted' = [inserted EXCEPT !.tenant = @ + 1]
    /\ th' = [th EXCEPT ![i].pc = "ct_return", ![i].o = NewOid("tenant")]
    /\ UNCHANGED <<product, order, createdUnder, resp>>

\* create_tenant, line 90 to 91: the re-read and the response
ct_return(i) ==
    /\ th[i].pc = "ct_return"
    /\ resp' = Ok("create_tenant", th[i].req, to_str_id(FindById(tenant, th[i].o)))
    /\ th' = [th EXCEPT ![i] = Idle]
    /\ UNCHANGED <<tenant, product, order, inserted, clock, createdUnder>>

\* update_product, line 136 to 142: the id check, the read, the literal match
up_find(i, product_id, in) ==
    LET req == [product_id |-> product_id, product |-> in]
        existing == FindById(product, ObjectId(product_id))
    IN /\ th[i].pc = "idle"
       /\ IF ~IsValidOid(product_id)
          THEN /\ resp' = HTTPException("update_product", req, 400, "Invalid product id")
               /\ UNCHANGED th
          ELSE IF existing = NoDoc
          THEN /\ resp' = HTTPException("update_product", req, 404, "Product not found")
               /\ UNCHANGED th
          ELSE /\ th' = [th EXCEPT ![i] =
                          [pc |-> IF existing.tenant_id # in.tenant_id
                                  THEN "up_scope" ELSE "up_write",
                           req |-> req, existing |-> existing, o |-> ObjectId(product_id)]]
               /\ UNCHANGED resp
       /\ UNCHANGED <<tenant, product, order, inserted, clock, createdUnder>>

\* update_product, line 144 to 146: the subdomain lookup of the scope check
up_scope(i) ==
    /\ th[i].pc = "up_scope"
    /\ IF TenantMismatch(th[i].existing, th[i].req.product.tenant_id)
       THEN /\ resp' = HTTPException("update_product", th[i].req, 403, "Tenant mismatch")
            /\ th' = [th EXCEPT ![i] = Idle]
       ELSE /\ th' = [th EXCEPT ![i].pc = "up_write"]
            /\ UNCHANGED resp
    /\ UNCHANGED <<tenant, product, order, inserted, clock, createdUnder>>

\* update_product, line 147 to 149: the write
up_write(i) ==
    /\ th[i].pc = "up_write"
    /\ \E t \in 0..MaxClock :
         /\ Now(t)
         /\ clock' = t
         /\ product' = UpdateOne(product, th[i].o, ProductUpdate(th[i].req.product, t))
    /\ th' = [th EXCEPT ![i].pc = "up_return"]
    /\ UNCHANGED <<tenant, order, inserted, createdUnder, resp>>

\* update_product, line 150 to 151: the re-read and the response
up_return(i) ==
    /\ th[i].pc = "up_return"
    /\ resp' = Ok("update_product", th[i].req, to_str_id(FindById(product, th[i].o)))
    /\ th' = [th EXCEPT ![i] = Idle]
    /\ UNCHANGED <<tenant, product, order, inserted, clock, createdUnder>>

(* ---------------------------- specification ---------------------------- *)

NoResp == [op |-> "none", req |-> <<>>, status |-> 0, body |-> <<>>]

Init ==
    /\ tenant = <<>>
    /\ product = <<>>
    /\ order = <<>>
    /\ inserted = [tenant |-> 0, product |-> 0, order |-> 0]
    /\ clock = 0
    /\ createdUnder = <<>>
    /\ resp = NoResp
    /\ th = [i \in Threads |-> Idle]

CreateTenant == \E in \in TenantIn : create_tenant(in)

\* the tenant of the order requests
CreateShop == \E in \in TenantIn : in.subdomain = "acme" /\ create_tenant(in)

GetTenantBySubdomain == \E s \in Subdomains : get_tenant_by_subdomain(s)

CreateProduct == \E in \in ProductIn : create_product(in)

ListProducts == \E r \in TenantRefs, a \in BOOLEAN : list_products(r, a)

UpdateProduct == \E id \in ProductIds, in \in ProductIn : update_product(id, in)

DeleteProduct == \E id \in ProductIds, r \in TenantRefs : delete_product(id, r)

CreateOrder == \E in \in OrderIn : create_order(in)

ListOrders == \E r \in OrderTenantRefs : list_orders(r)

UpdateOrder == \E id \in OrderIds, p \in OrderUpdate : update_order(id, p)

\* Tenants and orders
Next ==
    \/ CreateShop
    \/ CreateOrder
    \/ ListOrders
    \/ UpdateOrder

Spec == Init /\ [][Next]_vars

\* Tenants and products
NextCatalog ==
    \/ CreateTenant
    \/ GetTenantBySubdomain
    \/ CreateProduct
    \/ ListProducts
    \/ UpdateProduct
    \/ DeleteProduct

SpecCatalog == Init /\ [][NextCatalog]_vars

\* The requests of the concurrent runs
ConcTenantIn == {in \in TenantIn : in.subdomain = "acme" /\ in.name = "Acme"}

ConcCreateIn == {in \in ProductIn : in.tenant_id = "acme" /\ in.name = "Widget"}

ConcUpdateIn ==
    {in \in ProductIn : in.tenant_id \in {"acme", TenantOidHex[1]} /\ in.name = "Gadget"}

CtLookup == \E i \in Threads, in \in ConcTenantIn : ct_lookup(i, in)

CtInsert == \E i \in Threads : ct_insert(i)

CtReturn == \E i \in Threads : ct_return(i)

UpFind == \E i \in Threads, id \in ProductIds, in \in ConcUpdateIn : up_find(i, id, in)

UpScope == \E i \in Threads : up_scope(i)

UpWrite == \E i \in Threads : up_write(i)

UpReturn == \E i \in Threads : up_return(i)

ConcCreateProduct == \E in \in ConcCreateIn : create_product(in)

ConcDeleteProduct == \E id \in ProductIds : delete_product(id, "acme")

\* Tenant and product requests on concurrent threads; create_product and
\* delete_product are scheduled without interruption
NextConc ==
    \/ CtLookup
    \/ CtInsert
    \/ CtReturn
    \/ UpFind
    \/ UpScope
    \/ UpWrite
    \/ UpReturn
    \/ ConcCreateProduct
    \/ ConcDeleteProduct

SpecConc == Init /\ [][NextConc]_vars

(* ------------------------------- claims -------------------------------- *)

\* the tenant a stored product was created under
OwnerOf(p) == FindById(tenant, createdUnder[Str(p["_id"])])

\* C1: every stored product's tenant_id is the canonical id string of an
\* existing tenant.
C1_TenantIdCanonical ==
    \A i \in DOMAIN product :
        \E j \in DOMAIN tenant : product[i].tenant_id = Str(tenant[j]["_id"])

\* C2: an update or delete of an existing product whose tenant reference the
\* resolver (by id, then by subdomain) takes to a tenant other than the
\* product's owner answers 403 and leaves the products unchanged.
C2_ForeignRefForbidden ==
    [][ resp'.op \in {"update_product", "delete_product"} =>
          LET id == resp'.req.product_id
              ref == IF resp'.op = "update_product"
                     THEN resp'.req.product.tenant_id ELSE resp'.req.tenant_id
              P == FindById(product, ObjectId(id))
              T == ResolveTenant(ref)
          IN (IsValidOid(id) /\ P # NoDoc /\ T # NoDoc /\ T # OwnerOf(P))
                => (resp'.status = 403 /\ product' = product) ]_vars

\* C3: resolving a tenant's id string, and resolving its subdomain, both
\* return that tenant.
C3_ResolveRoundTrip ==
    \A j \in DOMAIN tenant :
        /\ ResolveTenant(Str(tenant[j]["_id"])) = tenant[j]
        /\ ResolveTenant(tenant[j].subdomain) = tenant[j]

\* C4: no two stored tenants have the same subdomain, concurrent
\* create_tenant requests included.
C4_SubdomainUnique ==
    \A i \in DOMAIN tenant, j \in DOMAIN tenant :
        tenant[i].subdomain = tenant[j].subdomain => i = j

\* C5: create_tenant with the subdomain of a stored tenant answers 400 and
\* leaves the tenants unchanged, whatever the other fields of the request.
C5_DuplicateSubdomainConflict ==
    [][ (/\ resp'.op = "create_tenant"
         /\ \E j \in DOMAIN tenant : tenant[j].subdomain = resp'.req.subdomain)
          => (resp'.status = 400 /\ tenant' = tenant) ]_vars

\* C5 witness: a 400 for a request whose name differs from the stored
\* tenant's of the same subdomain.
C5_Witness ==
    /\ resp.op = "create_tenant"
    /\ resp.status = 400
    /\ \E j \in DOMAIN tenant :
         tenant[j].subdomain = resp.req.subdomain /\ tenant[j].name # resp.req.name

AllNone(payload) == \A k \in DOMAIN payload : payload[k] = None

\* C6: update_order of an existing order with a patch whose fields are all
\* None leaves the stored orders as they are, updated_at included, and
\* answers 200 with the normalized order as it was.
C6_EmptyPatchNoOp ==
    [][ resp'.op = "update_order" =>
          LET existing == FindById(order, ObjectId(resp'.req.order_id))
          IN (IsValidOid(resp'.req.order_id) /\ existing # NoDoc
                /\ AllNone(resp'.req.payload))
                => /\ order' = order
                   /\ tenant' = tenant /\ product' = product
                   /\ resp'.status = 200
                   /\ resp'.body = to_str_id(existing) ]_vars

\* C6 witness: an empty patch answered for an order that an earlier patch
\* had changed.
C6_Witness ==
    /\ resp.op = "update_order"
    /\ resp.status = 200
    /\ AllNone(resp.req.payload)
    /\ resp.body.status = "shipped"

\* C7: update_order of an existing order with a patch that sets status only
\* sets that order's status, refreshes its updated_at and changes nothing
\* else: no other field, no other order, no product, no tenant.
C7_StatusOnlyPatch ==
    [][ resp'.op = "update_order" =>
          LET o == ObjectId(resp'.req.order_id)
              payload == resp'.req.payload
          IN (/\ IsValidOid(resp'.req.order_id)
              /\ FindById(order, o) # NoDoc
              /\ payload.status # None
              /\ payload.transaction_id = None
              /\ payload.payment_screenshot_url = None)
                => /\ DOMAIN order' = DOMAIN order
                   /\ \A i \in DOMAIN order :
                        IF order[i]["_id"] = o
                        THEN /\ DOMAIN order'[i] = DOMAIN order[i]
                             /\ order'[i].status = payload.status
                             /\ order'[i].updated_at = clock'
                             /\ clock' >= clock
                             /\ \A k \in DOMAIN order[i] \ {"status", "updated_at"} :
                                  order'[i][k] = order[i][k]
                        ELSE order'[i] = order[i]
                   /\ tenant' = tenant /\ product' = product ]_vars

\* C7 witness: a status-only patch answered while a second order is stored.
C7_Witness ==
    /\ resp.op = "update_order"
    /\ resp.status = 200
    /\ resp.req.payload.status = "shipped"
    /\ resp.req.payload.transaction_id = None
    /\ resp.body.status = "shipped"
    /\ resp.body.transaction_id # None
    /\ Len(order) = 2
    /\ \E i \in DOMAIN order : order[i].status = "pending_payment"

\* C8: the scope check of update_product and delete_product accepts, for
\* every stored product, its owner's id string and its owner's subdomain.
C8_OwnerAccepted ==
    \A i \in DOMAIN product :
        /\ ~TenantMismatch(product[i], Str(OwnerOf(product[i])["_id"]))
        /\ ~TenantMismatch(product[i], OwnerOf(product[i]).subdomain)

\* C9: an update_product request ends in 400, 404 or 403, or in a 200 that
\* carries the stored product, never an empty record.
C9_UpdateOutcome ==
    resp.op = "update_product" =>
        \/ resp.status \in {400, 403, 404}
        \/ resp.status = 200 /\ resp.body # NoDoc

\* C10: every stored product is in the unfiltered listing of its owner,
\* asked for by the owner's id string and by the owner's subdomain.
C10_OwnerListsProduct ==
    \A i \in DOMAIN product :
        /\ product[i] \in Range(list_products_docs(Str(OwnerOf(product[i])["_id"]), FALSE))
        /\ product[i] \in Range(list_products_docs(OwnerOf(product[i]).subdomain, FALSE))

====
